---- MODULE Spec2Model ----
(***************************************************************************)
(* Blog content pipeline of the e-commerce server: the Blog model's        *)
(* pre-save hook, generateProcessedContent and convertMarkdownToHtml       *)
(* (src/models/Category.js) and the blog routes that store and read        *)
(* documents (src/routes/blogs.js).                                        *)
(*                                                                         *)
(* A JavaScript string is a sequence of lexical tokens.  A token is a      *)
(* 4-tuple of strings <<kind, x, y, z>>:                                   *)
(*   <<"txt", w, "", "">>          a run of plain text without whitespace  *)
(*   <<"nl", "", "", "">>          a newline                               *)
(*   <<"anchor", alt, scheme, id>> the text ![alt](scheme:id), or          *)
(*                                 ![alt](id) when scheme is ""            *)
(*   <<"imgdiv", url, alt, cap>>   the image container built at            *)
(*                                 Category.js:297-300                     *)
(*   <<"a", text, scheme, id>>     the <a href="scheme:id" ...>text</a>    *)
(*                                 element built at Category.js:389        *)
(*   <<"p", "", "", "">>, <<"/p", "", "", "">>  the paragraph wrapper of   *)
(*                                 Category.js:481                         *)
(*   <<"words", n, "", "">>        n words separated by single spaces      *)
(*   <<"sp", ...>> <<"star", ...>> <<"tick", ...>> <<"dash", ...>>         *)
(*   <<"hash", ...>> <<"gt", ...>> the characters ' ', '*', '`', '-', '#'  *)
(*                                 and '>'                                 *)
(*   <<"num", d, "", "">>          the digits d followed by a dot          *)
(*   <<"color", c, "", "">>        the text {color:c}, c a colour the      *)
(*                                 regex of Category.js:376 accepts        *)
(*   <<"/color", "", "", "">>      the text {/color}                       *)
(*   <<"imgopen", "", "", "">>     the text <img                           *)
(*   <<"attr", a, "", "">>         an attribute a="..." of a tag           *)
(*   <<"tag", name, attr, "">>     the opening (name) or closing (/name)   *)
(*                                 tag the converter writes for an element *)
(***************************************************************************)
EXTENDS Integers, Sequences, FiniteSets, TLC

\* db         the Blog collection (at most one document is followed)
\* reqs       the requests in flight between findById and save()
\* nextUpload the number of files the upload middleware has stored
\* lastPost   the POST /blogs request that was handled, if any
\* resp       the last response sent
\* started    the number of requests started after the creation
\* call       a call of generateProcessedContent followed step by step
VARIABLES db, reqs, nextUpload, lastPost, resp, started, call

vars == <<db, reqs, nextUpload, lastPost, resp, started, call>>

\* ------------------------------------------------------------------ bounds
MaxLen == 3
MaxFiles == 2
MaxRequests == 2

\* ------------------------------------------------------------ JS constants
BlogImage == "Blog image"
Undefined == "undefined"
wordsPerMinute == 200

Truthy(s) == s # "" /\ s # Undefined

\* ------------------------------------------------------------------ tokens
Txt == <<"txt", "w", "", "">>
Bang == <<"txt", "!", "", "">>
NL == <<"nl", "", "", "">>
POpen == <<"p", "", "", "">>
PClose == <<"/p", "", "", "">>
Anchor(alt, scheme, id) == <<"anchor", alt, scheme, id>>
ImageAnchor(alt, id) == Anchor(alt, "image", id)

\* A run of words separated by single spaces; x names its number of words.
WordRunSizes == ("199" :> 199) @@ ("200" :> 200) @@ ("400" :> 400)
WordRun(k) == <<"words", k, "", "">>

SP == <<"sp", "", "", "">>
Star == <<"star", "", "", "">>
Tick == <<"tick", "", "", "">>
Dash == <<"dash", "", "", "">>
Hash == <<"hash", "", "", "">>
Gt == <<"gt", "", "", "">>
Num(d) == <<"num", d, "", "">>
ColorOpen(c) == <<"color", c, "", "">>
ColorClose == <<"/color", "", "", "">>
ImgOpen == <<"imgopen", "", "", "">>
Attr(a) == <<"attr", a, "", "">>
Tag(name, attr) == <<"tag", name, attr, "">>

IsSpace(t) == t[1] = "nl" \/ t[1] = "sp"

\* ------------------------------------------------------- string primitives
StartsWithAt(s, sub, i) ==
  /\ i + Len(sub) - 1 <= Len(s)
  /\ \A k \in 1..Len(sub) : s[i + k - 1] = sub[k]

Includes(s, sub) == \E i \in 1..(Len(s) + 1) : StartsWithAt(s, sub, i)

RECURSIVE CountFrom(_, _, _)
CountFrom(s, sub, i) ==
  IF i > Len(s) \/ sub = <<>> THEN 0
  ELSE IF StartsWithAt(s, sub, i) THEN 1 + CountFrom(s, sub, i + Len(sub))
  ELSE CountFrom(s, sub, i + 1)

Occurrences(s, sub) == CountFrom(s, sub, 1)

RECURSIVE ReplaceFrom(_, _, _, _)
ReplaceFrom(s, sub, rep, i) ==
  IF i > Len(s) THEN <<>>
  ELSE IF StartsWithAt(s, sub, i)
       THEN rep \o ReplaceFrom(s, sub, rep, i + Len(sub))
       ELSE <<s[i]>> \o ReplaceFrom(s, sub, rep, i + 1)

ReplaceFirst(s, sub, rep) ==
  IF ~Includes(s, sub) THEN s
  ELSE LET i == CHOOSE j \in 1..Len(s) :
                  /\ StartsWithAt(s, sub, j)
                  /\ \A k \in 1..(j - 1) : ~StartsWithAt(s, sub, k)
       IN SubSeq(s, 1, i - 1) \o rep \o SubSeq(s, i + Len(sub), Len(s))

\* processed.replace(new RegExp(escaped, 'g'), rep): every occurrence of the
\* literal, left to right.
ReplaceAll(s, sub, rep) == ReplaceFrom(s, sub, rep, 1)

RECURSIVE TrimLeft(_)
TrimLeft(s) ==
  IF s # <<>> /\ IsSpace(Head(s)) THEN TrimLeft(Tail(s)) ELSE s

RECURSIVE TrimRight(_)
TrimRight(s) ==
  IF s # <<>> /\ IsSpace(s[Len(s)]) THEN TrimRight(SubSeq(s, 1, Len(s) - 1)) ELSE s

Trim(s) == TrimRight(TrimLeft(s))

\* processed.match(/!\[.*?\]\([^)]+\)/g): the anchor-shaped substrings in
\* order, or null when there is none.
IsAnchorShaped(t) == t[1] = "anchor" /\ (t[3] # "" \/ t[4] # "")

MatchImagePlaceholders(s) ==
  LET found == SelectSeq(s, IsAnchorShaped)
  IN [isNull |-> found = <<>>, items |-> found]

\* ------------------------------------------- convertMarkdownToHtml (370-490)
\* html.replace(/\[(.*?)\]\((.*?)\)/g, '<a href="$2" ...>$1</a>'): the
\* bracket-and-parenthesis part of an anchor becomes a link element; the
\* leading "!" is not part of the match and stays as text.
LinkOf(t) == <<Bang, <<"a", t[2], t[3], t[4]>>>>

RECURSIVE LinkPass(_)
LinkPass(s) ==
  IF s = <<>> THEN <<>>
  ELSE IF Head(s)[1] = "anchor" THEN LinkOf(Head(s)) \o LinkPass(Tail(s))
  ELSE <<Head(s)>> \o LinkPass(Tail(s))

Has(s, kinds) == \E k \in 1..Len(s) : s[k][1] \in kinds

\* (.*?) followed by the closing delimiter: the first position from `from`
\* on where `delim` starts, with no newline before it unless the pattern is
\* [\s\S]*?; 0 when there is none.
ClosingAt(s, delim, from, multiline) ==
  LET cands == {j \in from..(Len(s) - Len(delim) + 1) :
                  /\ StartsWithAt(s, delim, j)
                  /\ multiline \/ \A k \in from..(j - 1) : s[k] # NL}
  IN IF cands = {} THEN 0 ELSE CHOOSE j \in cands : \A k \in cands : j <= k

\* html.replace(/D(.*?)D/g, open $1 close) for a delimiter D, left to right.
RECURSIVE DelimitedFrom(_, _, _, _, _, _)
DelimitedFrom(s, delim, open, close, multiline, i) ==
  IF i > Len(s) THEN <<>>
  ELSE LET j == IF StartsWithAt(s, delim, i)
                THEN ClosingAt(s, delim, i + Len(delim), multiline)
                ELSE 0
       IN IF j # 0
          THEN open \o SubSeq(s, i + Len(delim), j - 1) \o close
                 \o DelimitedFrom(s, delim, open, close, multiline, j + Len(delim))
          ELSE <<s[i]>> \o DelimitedFrom(s, delim, open, close, multiline, i + 1)

\* html.replace(/^P(.*$)/gim, open $1 close) for a line prefix P.
LineEnd(s, i) ==
  LET ends == {k \in i..Len(s) : s[k] = NL}
  IN IF ends = {} THEN Len(s) + 1 ELSE CHOOSE k \in ends : \A m \in ends : k <= m

RECURSIVE PrefixFrom(_, _, _, _, _)
PrefixFrom(s, prefix, open, close, i) ==
  IF i > Len(s) THEN <<>>
  ELSE IF (i = 1 \/ s[i - 1] = NL) /\ StartsWithAt(s, prefix, i)
       THEN open \o SubSeq(s, i + Len(prefix), LineEnd(s, i + Len(prefix)) - 1) \o close
              \o PrefixFrom(s, prefix, open, close, LineEnd(s, i + Len(prefix)))
       ELSE <<s[i]>> \o PrefixFrom(s, prefix, open, close, i + 1)

\* 376, 429, 442: {color:c}text{/color} becomes a span.
RECURSIVE ColorFrom(_, _)
ColorFrom(s, i) ==
  IF i > Len(s) THEN <<>>
  ELSE LET j == IF s[i][1] = "color" THEN ClosingAt(s, <<ColorClose>>, i + 1, FALSE) ELSE 0
       IN IF j # 0
          THEN <<Tag("span", s[i][2])>> \o SubSeq(s, i + 1, j - 1) \o <<Tag("/span", "")>>
                 \o ColorFrom(s, j + 1)
          ELSE <<s[i]>> \o ColorFrom(s, i + 1)

\* Faulty variant: colour tags are left as they are.
ColorPass_None(s) == s

ColorPass(s) == IF Has(s, {"color"}) THEN ColorFrom(s, 1) ELSE s

\* 379-382
Hashes(n) == [k \in 1..n |-> Hash]

Header(s, n, name) ==
  PrefixFrom(s, Hashes(n) \o <<SP>>, <<Tag(name, "")>>, <<Tag("/" \o name, "")>>, 1)

HeaderPass(s) ==
  IF Has(s, {"hash"}) THEN Header(Header(Header(Header(s, 1, "h1"), 2, "h2"), 3, "h3"), 4, "h4")
  ELSE s

\* 385
BoldPass(s) ==
  IF Has(s, {"star"})
  THEN DelimitedFrom(s, <<Star, Star>>, <<Tag("strong", "")>>, <<Tag("/strong", "")>>, FALSE, 1)
  ELSE s

\* 386
ItalicPass(s) ==
  IF Has(s, {"star"})
  THEN DelimitedFrom(s, <<Star>>, <<Tag("em", "")>>, <<Tag("/em", "")>>, FALSE, 1)
  ELSE s

\* 392
InlineCodePass(s) ==
  IF Has(s, {"tick"})
  THEN DelimitedFrom(s, <<Tick>>, <<Tag("code", "")>>, <<Tag("/code", "")>>, FALSE, 1)
  ELSE s

\* 395
BlockquotePass(s) ==
  IF Has(s, {"gt"})
  THEN PrefixFrom(s, <<Gt, SP>>, <<Tag("blockquote", "")>>, <<Tag("/blockquote", "")>>, 1)
  ELSE s

\* 398
Fence == <<Tick, Tick, Tick>>

CodeBlockPass(s) ==
  IF Has(s, {"tick"})
  THEN DelimitedFrom(s, Fence, <<Tag("pre", ""), Tag("code", "")>>,
                     <<Tag("/code", ""), Tag("/pre", "")>>, TRUE, 1)
  ELSE s

\* 376-398, in the order of the source.
RegexPasses(markdown) ==
  CodeBlockPass(BlockquotePass(InlineCodePass(LinkPass(
    ItalicPass(BoldPass(HeaderPass(ColorPass(markdown))))))))

\* html.split('\n')
RECURSIVE SplitLinesFrom(_, _, _)
SplitLinesFrom(s, i, cur) ==
  IF i > Len(s) THEN <<cur>>
  ELSE IF s[i] = NL THEN <<cur>> \o SplitLinesFrom(s, i + 1, <<>>)
  ELSE SplitLinesFrom(s, i + 1, Append(cur, s[i]))

SplitLines(s) == SplitLinesFrom(s, 1, <<>>)

\* processedLines.join('\n')
RECURSIVE JoinLines(_)
JoinLines(ls) ==
  IF ls = <<>> THEN <<>>
  ELSE IF Len(ls) = 1 THEN ls[1]
  ELSE ls[1] \o <<NL>> \o JoinLines(Tail(ls))

\* Category.js:475: the line already contains one of '<div', '<h',
\* '<blockquote', '<ul', '<ol', '<li', '<pre', '<code', '<a', '<strong',
\* '<em', '<img' and is kept as it is.
HtmlKinds == {"imgdiv", "a", "imgopen"}
HtmlTags == {"h1", "h2", "h3", "h4", "blockquote", "ul", "ol", "li", "pre", "code", "strong", "em"}

ContainsHtml(line) ==
  \E k \in 1..Len(line) :
    line[k][1] \in HtmlKinds \/ (line[k][1] = "tag" /\ line[k][2] \in HtmlTags)

\* lines[j].includes('>'): the tokens whose text holds a '>'.
IncludesGt(line) == Has(line, {"gt", "tag", "imgdiv", "a", "p", "/p"})

\* 422, 435
IsUnordered(line) == StartsWithAt(line, <<Dash, SP>>, 1) \/ StartsWithAt(line, <<Star, SP>>, 1)
IsOrdered(line) == Len(line) >= 2 /\ line[1][1] = "num" /\ line[2] = SP

\* 427-430, 440-443: the text after the bullet, colour tags replaced again.
ListItem(line) ==
  <<Tag("li", "")>> \o ColorPass(SubSeq(line, 3, Len(line))) \o <<Tag("/li", "")>>

\* The state of the line loop: the index i of the line the next iteration
\* reads (0-based), the lines pushed so far and the two list flags; threw
\* records a method call on a line that does not exist.
LoopStart == [i |-> 0, processedLines |-> <<>>, inList |-> FALSE, inOrderedList |-> FALSE,
              threw |-> FALSE]

\* Faulty variant: the flags are reset but no closing tag is pushed.
Closed_NoTags(st) == [st EXCEPT !.inList = FALSE, !.inOrderedList = FALSE]

\* Faulty variant: only the unordered list is closed; an open ordered list
\* loses its flag without its closing tag.
Closed_UlOnly(st) ==
  [st EXCEPT !.processedLines = @ \o (IF st.inList THEN <<<<Tag("/ul", "")>>>> ELSE <<>>),
             !.inList = FALSE,
             !.inOrderedList = FALSE]

\* 410-417, 448-455, 486-487: </ul> and </ol> for the lists that are open.
Closed(st) ==
  [st EXCEPT !.processedLines = @ \o (IF st.inList THEN <<<<Tag("/ul", "")>>>> ELSE <<>>)
                                  \o (IF st.inOrderedList THEN <<<<Tag("/ol", "")>>>> ELSE <<>>),
             !.inList = FALSE,
             !.inOrderedList = FALSE]

\* Faulty variant: the while loop of 462 without its bound reads a line
\* past the end when no line closes the tag.
RECURSIVE MergeFrom_NoBound(_, _, _)
MergeFrom_NoBound(lines, merged, j) ==
  IF j >= Len(lines) THEN [merged |-> merged, j |-> j, threw |-> TRUE]
  ELSE IF ~IncludesGt(lines[j + 1])
  THEN MergeFrom_NoBound(lines, merged \o <<SP>> \o Trim(lines[j + 1]), j + 1)
  ELSE [merged |-> merged, j |-> j, threw |-> FALSE]

\* 462-465: the lines from index j on are appended until one holds a '>'.
RECURSIVE MergeFrom(_, _, _)
MergeFrom(lines, merged, j) ==
  IF j < Len(lines) /\ ~IncludesGt(lines[j + 1])
  THEN MergeFrom(lines, merged \o <<SP>> \o Trim(lines[j + 1]), j + 1)
  ELSE [merged |-> merged, j |-> j, threw |-> FALSE]

\* Faulty variant: the merged line is pushed but the outer loop is not
\* advanced past the lines it holds.
MergeImg_NoSkip(lines, st, line) ==
  LET m == MergeFrom(lines, line, st.i + 1)
  IN [st EXCEPT !.processedLines =
                  Append(@, IF m.j < Len(lines) THEN m.merged \o <<SP>> \o Trim(lines[m.j + 1])
                            ELSE m.merged),
                !.i = @ + 1]

\* 458-472
MergeImg(lines, st, line) ==
  LET m == MergeFrom(lines, line, st.i + 1)
  IN IF m.j < Len(lines)
     THEN [st EXCEPT !.processedLines = Append(@, m.merged \o <<SP>> \o Trim(lines[m.j + 1])),
                     !.i = m.j + 1,
                     !.threw = m.threw]
     ELSE [st EXCEPT !.processedLines = Append(@, m.merged), !.i = @ + 1, !.threw = m.threw]

\* One iteration of the for loop (406-483), i++ included.
LoopStep(lines, st) ==
  LET line == Trim(lines[st.i + 1])
  IN IF line = <<>> THEN [Closed(st) EXCEPT !.i = @ + 1]
     ELSE IF IsUnordered(line)
     THEN [st EXCEPT !.processedLines =
                       (IF st.inList THEN @ ELSE Append(@, <<Tag("ul", "")>>)) \o <<ListItem(line)>>,
                     !.inList = TRUE,
                     !.i = @ + 1]
     ELSE IF IsOrdered(line)
     THEN [st EXCEPT !.processedLines =
                       (IF st.inOrderedList THEN @ ELSE Append(@, <<Tag("ol", "")>>)) \o <<ListItem(line)>>,
                     !.inOrderedList = TRUE,
                     !.i = @ + 1]
     ELSE IF line[1][1] = "imgopen" THEN MergeImg(lines, Closed(st), line)
     ELSE IF ContainsHtml(line)
     THEN [Closed(st) EXCEPT !.processedLines = Append(@, line), !.i = @ + 1]
     ELSE IF ~StartsWithAt(line, Fence, 1)
     THEN [Closed(st) EXCEPT !.processedLines = Append(@, <<POpen>> \o line \o <<PClose>>),
                             !.i = @ + 1]
     ELSE [Closed(st) EXCEPT !.i = @ + 1]

RECURSIVE RunLoop(_, _)
RunLoop(lines, st) ==
  IF st.i < Len(lines) /\ ~st.threw THEN RunLoop(lines, LoopStep(lines, st)) ELSE st

\* 401-487: the lines pushed by the loop and by the closing of open lists.
LinePass(ls) == Closed(RunLoop(ls, LoopStart)).processedLines

convertMarkdownToHtml(markdown) ==
  IF markdown = <<>> THEN <<>>
  ELSE JoinLines(LinePass(SplitLines(RegexPasses(markdown))))

\* The call throws instead of returning.  Only the merge of 458-472 reads
\* lines other than lines[i], and only for a text that holds '<img'.
convertThrows(markdown) ==
  /\ Has(markdown, {"imgopen"})
  /\ RunLoop(SplitLines(RegexPasses(markdown)), LoopStart).threw

\* ---------------------------------------- generateProcessedContent (262-367)
IsValidImage(image) == Truthy(image.public_id) /\ Truthy(image.url)

\* Category.js:283-294
PlaceholderFormats(image) ==
  << <<ImageAnchor(IF Truthy(image.alt) THEN image.alt ELSE BlogImage, image.public_id)>>,
     image.placeholder,
     <<ImageAnchor(BlogImage, image.public_id)>>,
     <<ImageAnchor(image.alt, image.public_id)>>,
     <<Anchor("", "", image.public_id)>> >>

\* Category.js:297-300: the container, its <img> with src and alt, and the
\* caption paragraph when the alt text is not the default.
ImageHtml(image) ==
  << <<"imgdiv", image.url,
       IF Truthy(image.alt) THEN image.alt ELSE BlogImage,
       IF Truthy(image.alt) /\ image.alt # BlogImage THEN image.alt ELSE "">> >>

\* Faulty variant: the exact search never succeeds, so every image goes
\* through the positional fallback.
FormatMatches_Never(processed, placeholder) == FALSE

\* Category.js:306: placeholder && placeholder.trim() && processed.includes(placeholder)
FormatMatches(processed, placeholder) ==
  /\ placeholder # <<>>
  /\ Trim(placeholder) # <<>>
  /\ Includes(processed, placeholder)

\* Category.js:305-318: the first format of the list that matches, 0 if none.
FirstMatchingFormat(processed, formats) ==
  LET matching == {k \in 1..Len(formats) : FormatMatches(processed, formats[k])}
  IN IF matching = {} THEN 0
     ELSE CHOOSE k \in matching : \A j \in matching : k <= j

\* Faulty variant: the bound of the fallback is off by one.
FallbackAvailable_OffByOne(all, index) == ~all.isNull /\ Len(all.items) > index + 1

\* Category.js:334: allPlaceholders && allPlaceholders.length > index
FallbackAvailable(all, index) == ~all.isNull /\ Len(all.items) > index

\* Faulty variant: no guard on the result of match(); reading the index of
\* null, or using an undefined entry, throws out of forEach.
FallbackReplace_NoNullGuard(st, image, index) ==
  LET all == MatchImagePlaceholders(st.processed)
  IN IF FallbackAvailable(all, index)
     THEN [processed |-> ReplaceAll(st.processed, <<all.items[index + 1]>>, ImageHtml(image)),
           how |-> Append(st.how, "fallback"),
           used |-> Append(st.used, <<all.items[index + 1]>>),
           threw |-> FALSE]
     ELSE [st EXCEPT !.how = Append(@, "threw"), !.used = Append(@, <<>>), !.threw = TRUE]

\* Category.js:320-345: the positional fallback of the image at `index`
\* (0-based, its index in contentImages).
FallbackReplace(st, image, index) ==
  LET all == MatchImagePlaceholders(st.processed)
  IN IF FallbackAvailable(all, index)
     THEN LET fallbackPlaceholder == <<all.items[index + 1]>>
          IN [processed |-> ReplaceAll(st.processed, fallbackPlaceholder, ImageHtml(image)),
              how |-> Append(st.how, "fallback"),
              used |-> Append(st.used, fallbackPlaceholder),
              threw |-> FALSE]
     ELSE [st EXCEPT !.how = Append(@, "none"), !.used = Append(@, <<>>)]

\* Category.js:273-352: the body of contentImages.forEach for one image.
\* how[i] records what happened to image i: "exact", "fallback", "none"
\* (no placeholder and no fallback candidate), "invalid" or "skipped" (an
\* earlier iteration threw); used[i] is the anchor it replaced.
ImageStep(st, image, index) ==
  IF st.threw THEN [st EXCEPT !.how = Append(@, "skipped"), !.used = Append(@, <<>>)]
  ELSE IF ~IsValidImage(image)
  THEN [st EXCEPT !.how = Append(@, "invalid"), !.used = Append(@, <<>>)]
  ELSE LET formats == PlaceholderFormats(image)
           k == FirstMatchingFormat(st.processed, formats)
       IN IF k # 0
          THEN [processed |-> ReplaceAll(st.processed, formats[k], ImageHtml(image)),
                how |-> Append(st.how, "exact"),
                used |-> Append(st.used, formats[k]),
                threw |-> FALSE]
          ELSE FallbackReplace(st, image, index)

RECURSIVE ForEachImage(_, _, _)
ForEachImage(st, images, i) ==
  IF i > Len(images) THEN st
  ELSE ForEachImage(ImageStep(st, images[i], i - 1), images, i + 1)

\* Step 1 of generateProcessedContent (263-355).
ReplaceImagePlaceholders(content, contentImages) ==
  ForEachImage([processed |-> content, how |-> <<>>, used |-> <<>>, threw |-> FALSE],
               contentImages, 1)

\* Faulty variant: the method patches the stored processedContent when there
\* is one instead of starting from content.
generateProcessedContent_FromStored(doc) ==
  IF doc.processedContent # <<<<"undefined", "", "", "">>>> /\ doc.processedContent # <<>>
  THEN convertMarkdownToHtml(ReplaceImagePlaceholders(doc.processedContent, doc.contentImages).processed)
  ELSE convertMarkdownToHtml(ReplaceImagePlaceholders(doc.content, doc.contentImages).processed)

\* The method reads this.content and this.contentImages only.
generateProcessedContent(doc) ==
  convertMarkdownToHtml(ReplaceImagePlaceholders(doc.content, doc.contentImages).processed)

generateThrows(doc) ==
  LET step1 == ReplaceImagePlaceholders(doc.content, doc.contentImages)
  IN step1.threw \/ convertThrows(step1.processed)

\* --------------------------------------------------------------- documents
\* processedContent of a document that was never saved (schema line 69: no
\* default).
NoProcessedContent == <<<<"undefined", "", "", "">>>>

\* Schema defaults (Category.js:48-195) of the fields the pipeline touches.
NewBlog(content, contentImages) ==
  [content |-> content,
   processedContent |-> NoProcessedContent,
   contentImages |-> contentImages,
   readTime |-> 0,
   views |-> 0,
   likes |-> <<>>,
   likesCount |-> 0,
   v |-> 0]

CeilDiv(a, b) == (a + b - 1) \div b

\* content.split(/\s+/).length: one more than the number of whitespace runs;
\* the default alt text holds one space of its own, a run of n words n - 1.
TokenSpaces(t) ==
  IF t[1] = "anchor" /\ t[2] = BlogImage THEN 1
  ELSE IF t[1] = "words" THEN WordRunSizes[t[2]] - 1
  ELSE 0

RECURSIVE SumSpaces(_)
SumSpaces(s) == IF s = <<>> THEN 0 ELSE TokenSpaces(Head(s)) + SumSpaces(Tail(s))

WhitespaceRuns(s) ==
  Cardinality({i \in 1..Len(s) : IsSpace(s[i]) /\ (i = 1 \/ ~IsSpace(s[i - 1]))})

WordCount(content) == 1 + WhitespaceRuns(content) + SumSpaces(content)

RECURSIVE Reversed(_)
Reversed(seq) == IF seq = <<>> THEN <<>> ELSE Append(Reversed(Tail(seq)), Head(seq))

\* Faulty variant: the hook rewrites the image list (newest first) and trims
\* the content while it regenerates.
PreSave_Normalises(doc, mod) ==
  IF "content" \in mod \/ "contentImages" \in mod
  THEN LET d == [doc EXCEPT !.contentImages = Reversed(@), !.content = Trim(@)]
       IN [d EXCEPT !.readTime = 1, !.processedContent = generateProcessedContent(d)]
  ELSE doc

\* Faulty variant: the hook leaves readTime as it was loaded.
PreSave_KeepsReadTime(doc, mod) ==
  LET d2 == IF "content" \in mod \/ "contentImages" \in mod
            THEN [doc EXCEPT !.processedContent = generateProcessedContent(doc)]
            ELSE doc
  IN IF "likes" \in mod THEN [d2 EXCEPT !.likesCount = Len(d2.likes)] ELSE d2

\* blogSchema.pre('save') (Category.js:232-259) on the in-memory document
\* `doc` whose modified paths are `mod`.
PreSave(doc, mod) ==
  LET d1 == IF "content" \in mod
            THEN [doc EXCEPT !.readTime = CeilDiv(WordCount(doc.content), wordsPerMinute)]
            ELSE doc
      d2 == IF "content" \in mod \/ "contentImages" \in mod
            THEN [d1 EXCEPT !.processedContent = generateProcessedContent(d1)]
            ELSE d1
  IN IF "likes" \in mod THEN [d2 EXCEPT !.likesCount = Len(d2.likes)] ELSE d2

\* The hook throws when generateProcessedContent does; save() then rejects.
PreSaveThrows(doc, mod) ==
  ("content" \in mod \/ "contentImages" \in mod) /\ generateThrows(doc)

\* The paths a handler or the hook assigned a different value to.
ChangedPaths(before, after) == {f \in DOMAIN before : before[f] # after[f]}

\* ------------------------------------------------------- upload subsystem
\* file.filename (public_id) and file.path (url) of the k-th uploaded file.
UploadSeq ==
  << [filename |-> "p1", path |-> "u1"], [filename |-> "p2", path |-> "u2"],
     [filename |-> "p3", path |-> "u3"], [filename |-> "p4", path |-> "u4"] >>

TempIds == {"t1", "t2"}
ClientAlts == {"a"}

\* ------------------------------------------------ POST /blogs (263-494)
\* The files of the request with what the client sent for each
\* (req.files['contentImages'][i], placeholders[i], contentImagesAlts[i]).
PostTuples(req, first) ==
  [i \in 1..req.files |->
     [file |-> UploadSeq[first + i],
      placeholderId |-> req.placeholders[i],
      alt |-> req.alts[i]]]

\* blogs.js:337-376, one iteration: the tuple at `index` (0-based).
PostImageStep(acc, tuple, index) ==
  LET publicId == tuple.file.filename
      placeholderId == tuple.placeholderId
      altText == IF Truthy(tuple.alt) THEN tuple.alt ELSE BlogImage
      temporaryPlaceholder == <<ImageAnchor(altText, placeholderId)>>
      permanentPlaceholder == <<ImageAnchor(altText, publicId)>>
      updated == IF Truthy(placeholderId) /\ acc.updatedContent # <<>>
                 THEN ReplaceAll(acc.updatedContent, temporaryPlaceholder, permanentPlaceholder)
                 ELSE acc.updatedContent
  IN [updatedContent |-> updated,
      contentImages |-> Append(acc.contentImages,
                               [url |-> tuple.file.path,
                                public_id |-> publicId,
                                alt |-> altText,
                                placeholder |-> permanentPlaceholder,
                                position |-> index])]

RECURSIVE PostForEach(_, _, _)
PostForEach(acc, tuples, index) ==
  IF index >= Len(tuples) THEN acc
  ELSE PostForEach(PostImageStep(acc, tuples[index + 1], index), tuples, index + 1)

\* blogs.js:310-377: updatedContent and contentImages after the loop.
PostResolve(content, tuples) ==
  PostForEach([updatedContent |-> Trim(content), contentImages |-> <<>>], tuples, 0)

\* blogs.js:406-420: content and contentImages of blogData.
PostBlogData(req, first) == PostResolve(req.content, PostTuples(req, first))

\* blogs.js:294: !content || !content.trim()
PostRejects(req) == req.content = <<>> \/ Trim(req.content) = <<>>

\* new Blog(blogData) and blog.save(): every path of a new document is
\* modified.
PostCreatedBlog(req, first) ==
  LET data == PostBlogData(req, first)
      blog == NewBlog(data.updatedContent, data.contentImages)
  IN PreSave(blog, DOMAIN blog)

PostThrows(req, first) ==
  LET data == PostBlogData(req, first)
      blog == NewBlog(data.updatedContent, data.contentImages)
  IN PreSaveThrows(blog, DOMAIN blog)

\* ------------------------------------------------------------ request sets
SeqsUpTo(S, n) == UNION {[1..k -> S] : k \in 0..n}

FileAlts == {"a", ""}
FilePlaceholders == TempIds \cup {""}

\* The placeholders and alt texts a client sends with its files: one of each
\* per file.
FileFields ==
  {f \in SeqsUpTo(FilePlaceholders, MaxFiles) \X SeqsUpTo(FileAlts, MaxFiles) :
     Len(f[1]) = Len(f[2])}

PostsOver(contents) ==
  {[content |-> c, files |-> Len(f[1]), placeholders |-> f[1], alts |-> f[2]] :
     c \in contents, f \in FileFields}

\* One alt text per file; the temporary ids a client sends identify its
\* images, so the ones present are pairwise distinct (each tuple targets an
\* anchor of its own), and they are numbered in upload order (the contents
\* range over every order of the anchors).
ValidPost(req) ==
  /\ Len(req.alts) = req.files
  /\ \A i, j \in 1..req.files :
       (i # j /\ Truthy(req.placeholders[i])) => req.placeholders[i] # req.placeholders[j]
  /\ \A i \in 1..req.files :
       req.placeholders[i] = "t2" => \E j \in 1..(i - 1) : req.placeholders[j] = "t1"

GenTokens == {Txt, NL} \cup {ImageAnchor(a, t) : a \in ClientAlts, t \in TempIds}
GenPosts == {req \in PostsOver(SeqsUpTo(GenTokens, MaxLen)) : ValidPost(req)}

\* ------------------------------------------------------------------ actions
ReqIds == {1, 2}
IdleReq == [pc |-> "idle", kind |-> "", base |-> <<>>, doc |-> <<>>, marked |-> {}, arrayOp |-> "none"]
NoResp == [route |-> "", status |-> 0, blogs |-> <<>>]
NoCall == [pc |-> "idle", content |-> <<>>, contentImages |-> <<>>, processed |-> <<>>,
           lines |-> <<>>, loop |-> LoopStart, result |-> <<>>]

\* POST /blogs, from the request to the response (the first save of a
\* document has no earlier await that reads the collection).
PostBlog(posts) ==
  /\ lastPost = <<>>
  /\ \E req \in posts :
       /\ nextUpload + req.files <= Len(UploadSeq)
       /\ lastPost' = <<req>>
       /\ nextUpload' = nextUpload + req.files
       /\ IF PostRejects(req)
          THEN /\ db' = db
               /\ resp' = [route |-> "POST /", status |-> 400, blogs |-> <<>>]
          ELSE IF PostThrows(req, nextUpload)
          THEN /\ db' = db
               /\ resp' = [route |-> "POST /", status |-> 500, blogs |-> <<>>]
          ELSE /\ db' = <<PostCreatedBlog(req, nextUpload)>>
               /\ resp' = [route |-> "POST /", status |-> 201, blogs |-> db']
  /\ UNCHANGED <<reqs, started>>
  /\ UNCHANGED call

\* blogs.js:63-74: b.processedContent = b.generateProcessedContent() inside
\* try/catch, on the documents of the response only.
Regenerated(b) ==
  IF generateThrows(b) THEN b
  ELSE [b EXCEPT !.processedContent = generateProcessedContent(b)]

\* GET /blogs (11-93)
GetBlogs ==
  /\ resp' = [route |-> "GET /", status |-> 200,
              blogs |-> [i \in 1..Len(db) |-> Regenerated(db[i])]]
  /\ UNCHANGED <<db, reqs, nextUpload, lastPost, started>>
  /\ UNCHANGED call

Init ==
  /\ db = <<>>
  /\ reqs = [r \in ReqIds |-> IdleReq]
  /\ nextUpload = 0
  /\ lastPost = <<>>
  /\ resp = NoResp
  /\ started = 0
  /\ call = NoCall

\* The pipeline on its own: one creation with any content and uploads of the
\* bounds, then reads.
GenNext == PostBlog(GenPosts) \/ GetBlogs

GenSpec == Init /\ [][GenNext]_vars

\* ------------------------------------------------ PUT /blogs/:id (497-754)
Range(seq) == {seq[i] : i \in 1..Len(seq)}

RECURSIVE FilterOut(_, _)
FilterOut(images, ids) ==
  IF images = <<>> THEN <<>>
  ELSE IF Head(images).public_id \in ids THEN FilterOut(Tail(images), ids)
  ELSE <<Head(images)>> \o FilterOut(Tail(images), ids)

IsAnchorOfId(t, id) == t[1] = "anchor" /\ t[3] = "image" /\ t[4] = id

\* blogs.js:628-644: the alt text of the first anchor of this id in the
\* content, else the alt the client sent, else the default.
PutAltText(content, placeholderId, sentAlt) ==
  LET found == SelectSeq(content, LAMBDA t : IsAnchorOfId(t, placeholderId))
      fromContent == IF Truthy(placeholderId) /\ content # <<>> /\ found # <<>> /\ found[1][2] # ""
                     THEN found[1][2] ELSE BlogImage
  IN IF fromContent = BlogImage /\ Truthy(sentAlt) THEN sentAlt ELSE fromContent

\* blogs.js:654-655: every anchor of this id, whatever its alt text, becomes
\* the final placeholder.
ReplaceById(content, id, rep) ==
  [k \in 1..Len(content) |-> IF IsAnchorOfId(content[k], id) THEN rep ELSE content[k]]

\* blogs.js:622-665, one iteration of the upload loop; `count` is
\* blog.contentImages.length.
PutImageStep(acc, tuple, index, count) ==
  LET publicId == tuple.file.filename
      altText == PutAltText(acc.content, tuple.placeholderId, tuple.alt)
      finalPlaceholder == ImageAnchor(altText, publicId)
  IN [content |-> IF Truthy(tuple.placeholderId) /\ acc.content # <<>>
                  THEN ReplaceById(acc.content, tuple.placeholderId, finalPlaceholder)
                  ELSE acc.content,
      newContentImages |-> Append(acc.newContentImages,
                                  [url |-> tuple.file.path,
                                   public_id |-> publicId,
                                   alt |-> altText,
                                   placeholder |-> <<finalPlaceholder>>,
                                   position |-> count + index])]

RECURSIVE PutForEach(_, _, _, _)
PutForEach(acc, tuples, index, count) ==
  IF index >= Len(tuples) THEN acc
  ELSE PutForEach(PutImageStep(acc, tuples[index + 1], index, count), tuples, index + 1, count)

\* blogs.js:691-702, one existing image sent by the client.
MergeExisting(images, existingImg) ==
  IF (\E k \in 1..Len(images) : images[k].public_id = existingImg.public_id)
       \/ ~Truthy(existingImg.public_id)
  THEN images
  ELSE Append(images,
              [url |-> existingImg.url,
               public_id |-> existingImg.public_id,
               alt |-> IF Truthy(existingImg.alt) THEN existingImg.alt ELSE "Blog content image",
               placeholder |-> <<ImageAnchor(IF Truthy(existingImg.alt) THEN existingImg.alt ELSE BlogImage,
                                             existingImg.public_id)>>,
               position |-> Len(images)])

RECURSIVE MergeAll(_, _)
MergeAll(images, existing) ==
  IF existing = <<>> THEN images
  ELSE MergeAll(MergeExisting(images, Head(existing)), Tail(existing))

\* blogs.js:522-707: the document as the handler leaves it before save(),
\* and the kind of change it made to the contentImages array ("set": a new
\* array was assigned; "push": elements were pushed only).
PutApply(blog, body, first) ==
  LET content1 == IF body.content # <<>> THEN body.content ELSE blog.content
      images1 == FilterOut(blog.contentImages, Range(body.deletedContentImages))
      tuples == PostTuples(body, first)
      loop == PutForEach([content |-> content1, newContentImages |-> <<>>],
                         tuples, 0, Len(images1))
      images2 == IF body.files = 0 THEN images1
                 ELSE IF body.replaceAllContentImages THEN loop.newContentImages
                 ELSE images1 \o loop.newContentImages
      images3 == IF body.replaceAllContentImages THEN images2
                 ELSE MergeAll(images2, body.contentImageUrls)
  IN [doc |-> [blog EXCEPT !.content = loop.content, !.contentImages = images3],
      arrayOp |-> IF images2 # blog.contentImages THEN "set"
                  ELSE IF images3 # images2 THEN "push"
                  ELSE "none"]

\* ------------------------------------------------------------ document.save()
\* The paths save() writes: those whose value differs from the loaded one
\* after the pre-save hook, and those marked with markModified.
ModifiedPaths(q) ==
  LET before == ChangedPaths(q.base, q.doc) \cup q.marked
  IN ChangedPaths(q.base, PreSave(q.doc, before)) \cup q.marked

Saved(q) == PreSave(q.doc, ChangedPaths(q.base, q.doc) \cup q.marked)

\* An assigned or spliced array is written with the version the document
\* was loaded at in the filter; the write fails when another writer has
\* incremented it.
VersionError(q, stored) == q.arrayOp = "set" /\ stored.v # q.base.v

\* The array a request changes: likes for the like handler (blogs.js:837-845),
\* contentImages for the others.
ArrayOf(q) == IF q.kind = "POST /:id/like" THEN "likes" ELSE "contentImages"

\* The stored document after the update save() sends.
Written(q, stored) ==
  LET final == Saved(q)
      paths == ModifiedPaths(q)
  IN [f \in DOMAIN stored |->
        IF f = "v" THEN (IF q.arrayOp = "none" THEN stored.v ELSE stored.v + 1)
        ELSE IF f = ArrayOf(q) /\ q.arrayOp = "push"
        THEN stored[f] \o SubSeq(final[f], Len(q.base[f]) + 1, Len(final[f]))
        ELSE IF f \in paths THEN final[f]
        ELSE stored[f]]

\* ------------------------------------------------- requests on a stored blog
\* The content and the existing image a client editing the blog sends back.
EditContents == {<<>>, <<Txt>>, <<Txt, ImageAnchor("a", "p1")>>, <<ImageAnchor("b", "t1")>>}
ExistingImages == {<<>>, <<[url |-> "u1", public_id |-> "p1", alt |-> ""]>>}

PutBodies ==
  {[content |-> c, deletedContentImages |-> d, files |-> Len(ph), placeholders |-> ph,
    alts |-> [i \in 1..Len(ph) |-> ""], replaceAllContentImages |-> ra, contentImageUrls |-> e] :
     c \in EditContents, d \in {<<>>, <<"p1">>}, ph \in {<<>>, <<"t1">>},
     ra \in BOOLEAN, e \in ExistingImages}

\* A body that uses one feature of the handler besides the content.
OneFeature(body) ==
  Cardinality({f \in {"deletedContentImages", "placeholders", "contentImageUrls"} : body[f] # <<>>}) <= 1
    /\ (body.replaceAllContentImages => body.files > 0)

SysTokens == {Txt, ImageAnchor("a", "t1")}
SysPosts ==
  {req \in PostsOver(SeqsUpTo(SysTokens, 2)) :
     /\ ValidPost(req)
     /\ req.files <= 1
     /\ \A i \in 1..req.files : req.placeholders[i] = "t1" /\ req.alts[i] = "a"}

Idle(r) == reqs[r].pc = "idle" /\ started < MaxRequests

\* PUT /blogs/:id up to the call of save() (511-710).
PutBlog(r) ==
  /\ Idle(r)
  /\ started' = started + 1
  /\ \E body \in {b \in PutBodies : OneFeature(b)} :
       IF db = <<>>
       THEN /\ resp' = [route |-> "PUT /:id", status |-> 404, blogs |-> <<>>]
            /\ UNCHANGED <<db, reqs, nextUpload, lastPost>>
       ELSE /\ nextUpload + body.files <= Len(UploadSeq)
            /\ nextUpload' = nextUpload + body.files
            /\ reqs' = [reqs EXCEPT ![r] =
                          [pc |-> "saving", kind |-> "PUT /:id", base |-> db[1],
                           doc |-> PutApply(db[1], body, nextUpload).doc,
                           marked |-> {},
                           arrayOp |-> PutApply(db[1], body, nextUpload).arrayOp]]
            /\ UNCHANGED <<db, lastPost, resp>>
  /\ UNCHANGED call

\* DELETE /blogs/:id/content-images/:publicId up to the call of save()
\* (759-785).
DeleteContentImage(r) ==
  /\ Idle(r)
  /\ started' = started + 1
  /\ \E publicId \in {"p1", "p2"} :
       IF db = <<>> \/ ~\E k \in 1..Len(db[1].contentImages) : db[1].contentImages[k].public_id = publicId
       THEN /\ resp' = [route |-> "DELETE /:id/content-images/:publicId", status |-> 404, blogs |-> <<>>]
            /\ UNCHANGED <<db, reqs, nextUpload, lastPost>>
       ELSE /\ reqs' = [reqs EXCEPT ![r] =
                          [pc |-> "saving", kind |-> "DELETE /:id/content-images/:publicId",
                           base |-> db[1],
                           doc |-> [db[1] EXCEPT !.contentImages =
                                      LET imageIndex == CHOOSE k \in 1..Len(@) :
                                                          /\ @[k].public_id = publicId
                                                          /\ \A j \in 1..(k - 1) : @[j].public_id # publicId
                                      IN SubSeq(@, 1, imageIndex - 1) \o SubSeq(@, imageIndex + 1, Len(@))],
                           marked |-> {},
                           arrayOp |-> "set"]]
            /\ UNCHANGED <<db, nextUpload, lastPost, resp>>
  /\ UNCHANGED call

\* The regenerate script: Blog.find({}), then markModified('content') on the
\* loaded document.
RegenerateBlogs(r) ==
  /\ Idle(r)
  /\ db # <<>>
  /\ started' = started + 1
  /\ reqs' = [reqs EXCEPT ![r] =
                [pc |-> "saving", kind |-> "regenerate", base |-> db[1], doc |-> db[1],
                 marked |-> {"content"}, arrayOp |-> "none"]]
  /\ UNCHANGED <<db, nextUpload, lastPost, resp>>
  /\ UNCHANGED call

\* await blog.save() of a request: the pre-save hook on the loaded document,
\* then the update of the modified paths.
Save(r) ==
  /\ reqs[r].pc = "saving"
  /\ reqs' = [reqs EXCEPT ![r] = IdleReq]
  /\ IF PreSaveThrows(reqs[r].doc, ChangedPaths(reqs[r].base, reqs[r].doc) \cup reqs[r].marked)
          \/ VersionError(reqs[r], db[1])
     THEN /\ db' = db
          /\ resp' = [route |-> reqs[r].kind, status |-> 500, blogs |-> <<>>]
     ELSE /\ db' = <<Written(reqs[r], db[1])>>
          /\ resp' = [route |-> reqs[r].kind, status |-> 200, blogs |-> <<Saved(reqs[r])>>]
  /\ UNCHANGED <<nextUpload, lastPost, started>>
  /\ UNCHANGED call

Next ==
  \/ PostBlog(SysPosts)
  \/ GetBlogs
  \/ \E r \in ReqIds : PutBlog(r)
  \/ \E r \in ReqIds : DeleteContentImage(r)
  \/ \E r \in ReqIds : RegenerateBlogs(r)
  \/ \E r \in ReqIds : Save(r)

Spec == Init /\ [][Next]_vars

\* ------------------------------------------------------ edits of the text
\* PUT /blogs/:id up to the call of save() (511-710) with a body of `bodies`.
PutBlogOf(r, bodies) ==
  /\ Idle(r)
  /\ db # <<>>
  /\ started' = started + 1
  /\ \E body \in bodies :
       /\ nextUpload + body.files <= Len(UploadSeq)
       /\ nextUpload' = nextUpload + body.files
       /\ reqs' = [reqs EXCEPT ![r] =
                     [pc |-> "saving", kind |-> "PUT /:id", base |-> db[1],
                      doc |-> PutApply(db[1], body, nextUpload).doc,
                      marked |-> {},
                      arrayOp |-> PutApply(db[1], body, nextUpload).arrayOp]]
  /\ UNCHANGED <<db, lastPost, resp>>
  /\ UNCHANGED call

\* Texts around the 200 and 400 word marks, with and without whitespace at
\* their ends.
TextBodies == {<<WordRun("199")>>, <<WordRun("200")>>, <<WordRun("400")>>, <<Txt>>}

TextContents ==
  UNION {{body, <<NL>> \o body, body \o <<NL>>, <<NL>> \o body \o <<NL, NL>>,
          body \o <<NL>> \o <<Txt>>, body \o <<NL, NL>> \o <<Txt>>} : body \in TextBodies}

TextEdits ==
  {[content |-> c, deletedContentImages |-> <<>>, files |-> 0, placeholders |-> <<>>,
    alts |-> <<>>, replaceAllContentImages |-> FALSE, contentImageUrls |-> <<>>] :
     c \in TextContents}

TextPost == [content |-> <<Txt>>, files |-> 0, placeholders |-> <<>>, alts |-> <<>>]

EditInit ==
  /\ db = <<PostCreatedBlog(TextPost, 0)>>
  /\ reqs = [r \in ReqIds |-> IdleReq]
  /\ nextUpload = 0
  /\ lastPost = <<TextPost>>
  /\ resp = NoResp
  /\ started = 0
  /\ call = NoCall

EditNext ==
  \/ \E r \in ReqIds : PutBlogOf(r, TextEdits)
  \/ \E r \in ReqIds : RegenerateBlogs(r)
  \/ \E r \in ReqIds : Save(r)

EditSpec == EditInit /\ [][EditNext]_vars

\* ------------------------------------------------------- reads of a blog
\* Bound of the view counter GET /blogs/:slug increments.
MaxViews == 2

\* GET /blogs/:slug up to the call of save() (100-123): the regenerated value
\* is assigned to the loaded document, then the view counter.
GetBlogBySlug(r) ==
  /\ reqs[r].pc = "idle"
  /\ IF db = <<>>
     THEN /\ resp' = [route |-> "GET /:slug", status |-> 404, blogs |-> <<>>]
          /\ UNCHANGED reqs
     ELSE /\ db[1].views < MaxViews
          /\ reqs' = [reqs EXCEPT ![r] =
                        [pc |-> "saving", kind |-> "GET /:slug", base |-> db[1],
                         doc |-> [Regenerated(db[1]) EXCEPT !.views = @ + 1],
                         marked |-> {}, arrayOp |-> "none"]]
          /\ UNCHANGED resp
  /\ UNCHANGED <<db, nextUpload, lastPost, started>>
  /\ UNCHANGED call

\* The handlers below send the documents as the query returned them.  The
\* followed document matches their filters (published, active, featured,
\* written by the requester).
StoredResponse(route) == [route |-> route, status |-> 200, blogs |-> db]

\* GET /blogs/id/:id (142-164)
GetBlogById ==
  /\ resp' = IF db = <<>>
             THEN [route |-> "GET /id/:id", status |-> 404, blogs |-> <<>>]
             ELSE StoredResponse("GET /id/:id")
  /\ UNCHANGED <<db, reqs, nextUpload, lastPost, started>>
  /\ UNCHANGED call

\* GET /blogs/featured/popular (167-190)
GetPopularBlogs ==
  /\ resp' = StoredResponse("GET /featured/popular")
  /\ UNCHANGED <<db, reqs, nextUpload, lastPost, started>>
  /\ UNCHANGED call

\* GET /blogs/featured/featured (193-215)
GetFeaturedBlogs ==
  /\ resp' = StoredResponse("GET /featured/featured")
  /\ UNCHANGED <<db, reqs, nextUpload, lastPost, started>>
  /\ UNCHANGED call

\* GET /blogs/author/my-blogs (907-942)
GetMyBlogs ==
  /\ resp' = StoredResponse("GET /author/my-blogs")
  /\ UNCHANGED <<db, reqs, nextUpload, lastPost, started>>
  /\ UNCHANGED call

\* GET /blogs/admin/all-blogs (945-979)
GetAllBlogs ==
  /\ resp' = StoredResponse("GET /admin/all-blogs")
  /\ UNCHANGED <<db, reqs, nextUpload, lastPost, started>>
  /\ UNCHANGED call

\* A request between findById and save().
PutRequest(blog, body, first) ==
  [pc |-> "saving", kind |-> "PUT /:id", base |-> blog,
   doc |-> PutApply(blog, body, first).doc,
   marked |-> {},
   arrayOp |-> PutApply(blog, body, first).arrayOp]

\* The stored document after the save() of request q returned or rejected.
AfterSave(q, stored) ==
  IF PreSaveThrows(q.doc, ChangedPaths(q.base, q.doc) \cup q.marked) \/ VersionError(q, stored)
  THEN stored
  ELSE Written(q, stored)

\* The collections the reads find: a created blog, possibly edited by one
\* PUT, or by two PUTs that both loaded the created document.
StoredBodies ==
  {b \in PutBodies : OneFeature(b) /\ b.deletedContentImages = <<>> /\ ~b.replaceAllContentImages}

StoredStates ==
  LET posts == {req \in SysPosts : ~PostRejects(req) /\ ~PostThrows(req, 0)}
      after(req) ==
        LET b == PostCreatedBlog(req, 0)
        IN {[db |-> b, uploads |-> req.files, post |-> req]}
           \cup {[db |-> AfterSave(PutRequest(b, b1, req.files), b),
                  uploads |-> req.files + b1.files, post |-> req] : b1 \in StoredBodies}
           \cup {[db |-> AfterSave(PutRequest(b, b2, req.files + b1.files),
                                   AfterSave(PutRequest(b, b1, req.files), b)),
                  uploads |-> req.files + b1.files + b2.files, post |-> req] :
                   b1 \in StoredBodies, b2 \in StoredBodies}
  IN UNION {after(req) : req \in posts}

StoredInit ==
  /\ \E st \in StoredStates :
       /\ db = <<st.db>>
       /\ nextUpload = st.uploads
       /\ lastPost = <<st.post>>
  /\ reqs = [r \in ReqIds |-> IdleReq]
  /\ resp = NoResp
  /\ started = 0
  /\ call = NoCall

StoredNext ==
  \/ GetBlogs
  \/ \E r \in ReqIds : GetBlogBySlug(r)
  \/ GetBlogById
  \/ GetPopularBlogs
  \/ GetFeaturedBlogs
  \/ GetMyBlogs
  \/ GetAllBlogs
  \/ \E r \in ReqIds : Save(r)

StoredSpec == StoredInit /\ [][StoredNext]_vars

\* --------------------------------------------- writers of every kind
UserIds == {"u1", "u2"}

\* blog.likes.indexOf(userId) (836), 0-based, -1 when absent.
LikeIndex(likes, userId) ==
  IF \E k \in 1..Len(likes) : likes[k] = userId
  THEN (CHOOSE k \in 1..Len(likes) :
          likes[k] = userId /\ \A j \in 1..(k - 1) : likes[j] # userId) - 1
  ELSE -1

\* blogs.js:838-846: push when the user is absent, splice otherwise, and
\* likesCount set to the length.
Toggled(blog, userId) ==
  LET likeIndex == LikeIndex(blog.likes, userId)
      likes == IF likeIndex = -1 THEN Append(blog.likes, userId)
               ELSE SubSeq(blog.likes, 1, likeIndex) \o SubSeq(blog.likes, likeIndex + 2, Len(blog.likes))
  IN [blog EXCEPT !.likes = likes, !.likesCount = Len(likes)]

\* POST /blogs/:id/like by one of `users` up to the call of save()
\* (824-848); the blog is published and active.
ToggleLikeOf(r, users) ==
  /\ Idle(r)
  /\ started' = started + 1
  /\ \E userId \in users :
       IF db = <<>>
       THEN /\ resp' = [route |-> "POST /:id/like", status |-> 404, blogs |-> <<>>]
            /\ UNCHANGED reqs
       ELSE /\ reqs' = [reqs EXCEPT ![r] =
                          [pc |-> "saving", kind |-> "POST /:id/like", base |-> db[1],
                           doc |-> Toggled(db[1], userId),
                           marked |-> {},
                           arrayOp |-> IF LikeIndex(db[1].likes, userId) = -1 THEN "push" ELSE "set"]]
            /\ UNCHANGED resp
  /\ UNCHANGED <<db, nextUpload, lastPost>>
  /\ UNCHANGED call

\* A like request between findById and save() (824-848).
LikeRequest(blog, userId) ==
  [pc |-> "saving", kind |-> "POST /:id/like", base |-> blog,
   doc |-> Toggled(blog, userId),
   marked |-> {},
   arrayOp |-> IF LikeIndex(blog.likes, userId) = -1 THEN "push" ELSE "set"]

\* Edits of the text across the 200-word mark that upload nothing, and the
\* upload of one image that leaves the text alone.
WriteBodies ==
  {b \in {[content |-> c, deletedContentImages |-> <<>>, files |-> Len(ph),
           placeholders |-> ph, alts |-> [i \in 1..Len(ph) |-> ""],
           replaceAllContentImages |-> FALSE, contentImageUrls |-> <<>>] :
             c \in {<<>>, <<Txt>>, <<WordRun("400")>>}, ph \in {<<>>, <<"">>}} :
     (b.content = <<>>) # (b.files = 0)}

WritePost ==
  [content |-> <<Txt, ImageAnchor("a", "t1")>>, files |-> 1, placeholders |-> <<"t1">>,
   alts |-> <<"a">>]

WriteInit ==
  /\ db = <<PostCreatedBlog(WritePost, 0)>>
  /\ reqs = [r \in ReqIds |-> IdleReq]
  /\ nextUpload = 1
  /\ lastPost = <<WritePost>>
  /\ resp = NoResp
  /\ started = 0
  /\ call = NoCall

WriteNext ==
  \/ \E r \in ReqIds : PutBlogOf(r, WriteBodies)
  \/ \E r \in ReqIds : DeleteContentImage(r)
  \/ \E r \in ReqIds : ToggleLikeOf(r, {"u1"})
  \/ \E r \in ReqIds : GetBlogBySlug(r)
  \/ \E r \in ReqIds : Save(r)

WriteSpec == WriteInit /\ [][WriteNext]_vars

\* Likes of two users on a created blog, and reads of it.
LikeNext ==
  \/ \E r \in ReqIds : ToggleLikeOf(r, UserIds)
  \/ \E r \in ReqIds : Save(r)
  \/ GetBlogs
  \/ GetBlogById
  \/ GetPopularBlogs

LikeSpec == WriteInit /\ [][LikeNext]_vars

\* ------------------------------------- a call of generateProcessedContent
\* Bounds of the texts the call is followed on.
MaxLines == 5
MaxMixed == 3
MaxInline == 3
MaxImages == 2
MaxFenced == 2

\* Runs of list lines and blank lines.
ListForms == {<<Dash, SP, Txt>>, <<Num("1"), SP, Txt>>, <<>>}

\* Lines of every kind the loop tells apart.
MixedForms ==
  {<<Dash, SP, Txt>>, <<Star, SP, Txt>>, <<Num("1"), SP, Txt>>, <<>>, <<Txt>>,
   <<ImgOpen, SP, Attr("src")>>, <<Attr("alt")>>, <<Attr("alt"), Gt>>,
   <<ImgOpen, SP, Attr("src"), Gt>>}

\* One line of inline markup, as a paragraph or as a list item.
InlineTokens == {Txt, Star, Tick, ColorOpen("#ff0000"), ColorClose}
LinePrefixes == {<<>>, <<Dash, SP>>, <<Star, SP>>, <<Num("1"), SP>>}

TextOf(ls) == JoinLines(ls)

\* A fenced block, alone or quoted, around text, line breaks and links.
FencedTexts ==
  {pre \o Fence \o body \o Fence :
     pre \in {<<>>, <<Gt, SP>>},
     body \in SeqsUpTo({Txt, NL, Anchor("a", "http", "x")}, MaxFenced)}

Markdowns ==
  {TextOf(ls) : ls \in SeqsUpTo(ListForms, MaxLines)}
    \cup {TextOf(ls) : ls \in SeqsUpTo(MixedForms, MaxMixed)}
    \cup {pre \o body : pre \in LinePrefixes, body \in SeqsUpTo(InlineTokens, MaxInline)}
    \cup FencedTexts

\* Image entries that lack none, one or all of public_id, url, alt and
\* placeholder.
FullImage ==
  [url |-> "u1", public_id |-> "p1", alt |-> "a", placeholder |-> <<ImageAnchor("a", "p1")>>,
   position |-> 0]

PartialImages ==
  {FullImage,
   [FullImage EXCEPT !.url = Undefined],
   [FullImage EXCEPT !.public_id = Undefined],
   [FullImage EXCEPT !.alt = Undefined],
   [FullImage EXCEPT !.placeholder = <<>>],
   [FullImage EXCEPT !.url = Undefined, !.public_id = Undefined, !.alt = Undefined,
                     !.placeholder = <<>>]}

ImageTexts ==
  {<<Txt>>, <<ImageAnchor("a", "p1")>>, <<ImageAnchor("b", "x"), NL, ImgOpen, SP, Attr("src")>>}

CallInputs ==
  {[content |-> c, contentImages |-> <<>>] : c \in Markdowns}
    \cup {[content |-> c, contentImages |-> imgs] :
            c \in ImageTexts, imgs \in SeqsUpTo(PartialImages, MaxImages) \ {<<>>}}

\* generateProcessedContent is called on a document (262).
CallInit ==
  /\ \E in \in CallInputs :
       call = [NoCall EXCEPT !.pc = "called", !.content = in.content,
                             !.contentImages = in.contentImages]
  /\ db = <<>>
  /\ reqs = [r \in ReqIds |-> IdleReq]
  /\ nextUpload = 0
  /\ lastPost = <<>>
  /\ resp = NoResp
  /\ started = 0

\* Step 1 (263-355): the placeholders of the images are replaced.
ReplaceStep ==
  /\ call.pc = "called"
  /\ LET step1 == ReplaceImagePlaceholders(call.content, call.contentImages)
     IN call' = [call EXCEPT !.pc = IF step1.threw THEN "threw" ELSE "convert",
                             !.processed = step1.processed]
  /\ UNCHANGED <<db, reqs, nextUpload, lastPost, resp, started>>

\* 371-404: the early return, the regular expressions and the split.
ConvertStart ==
  /\ call.pc = "convert"
  /\ call' = IF call.processed = <<>>
             THEN [call EXCEPT !.pc = "returned", !.result = <<>>]
             ELSE [call EXCEPT !.pc = "loop",
                               !.lines = SplitLines(RegexPasses(call.processed)),
                               !.loop = LoopStart]
  /\ UNCHANGED <<db, reqs, nextUpload, lastPost, resp, started>>

\* 406-483: one iteration of the for loop.
LoopIteration ==
  /\ call.pc = "loop"
  /\ call.loop.i < Len(call.lines)
  /\ LET st == LoopStep(call.lines, call.loop)
     IN call' = [call EXCEPT !.loop = st, !.pc = IF st.threw THEN "threw" ELSE "loop"]
  /\ UNCHANGED <<db, reqs, nextUpload, lastPost, resp, started>>

\* 486-489: the loop is left, open lists are closed, the lines are joined.
LoopExit ==
  /\ call.pc = "loop"
  /\ call.loop.i >= Len(call.lines)
  /\ call' = [call EXCEPT !.pc = "returned",
                          !.loop = Closed(call.loop),
                          !.result = JoinLines(Closed(call.loop).processedLines)]
  /\ UNCHANGED <<db, reqs, nextUpload, lastPost, resp, started>>

CallNext == ReplaceStep \/ ConvertStart \/ LoopIteration \/ LoopExit

CallSpec == CallInit /\ [][CallNext]_vars

\* ------------------------------------------------------------ observations
\* The number of <img> elements of `html` whose src is `url`.
CountImgSrc(html, url) ==
  Cardinality({k \in 1..Len(html) : html[k][1] = "imgdiv" /\ html[k][2] = url})

AnchorsOf(s) == MatchImagePlaceholders(s).items

\* What step 1 of generateProcessedContent did with each image of `doc`.
Resolution(doc) == ReplaceImagePlaceholders(doc.content, doc.contentImages)

\* The text the forEach callback of image i (1-based) starts from.
ProcessedBefore(doc, i) ==
  ReplaceImagePlaceholders(doc.content, SubSeq(doc.contentImages, 1, i - 1)).processed

HasExactMatchAt(doc, i) ==
  FirstMatchingFormat(ProcessedBefore(doc, i), PlaceholderFormats(doc.contentImages[i])) # 0

Created == db # <<>>
ThePost == lastPost[1]
TheTuples == PostTuples(ThePost, 0)

TemporaryAnchor(tuple) ==
  <<ImageAnchor(IF Truthy(tuple.alt) THEN tuple.alt ELSE BlogImage, tuple.placeholderId)>>
PermanentAnchor(tuple) ==
  <<ImageAnchor(IF Truthy(tuple.alt) THEN tuple.alt ELSE BlogImage, tuple.file.filename)>>

\* ------------------------------------------------------------------- claims

\* C1 (as claimed): every image whose stored placeholder occurs in content
\* appears as exactly one <img> with its url in the stored processedContent,
\* also when another image goes through the positional fallback and when the
\* anchor occurs more than once.
C1_ImageEmission ==
  Created =>
    \A k \in 1..Len(db[1].contentImages) :
      LET image == db[1].contentImages[k]
      IN (image.placeholder # <<>> /\ Includes(db[1].content, image.placeholder))
           => CountImgSrc(db[1].processedContent, image.url) = 1

\* C2 (as claimed): after POST /blogs, for every uploaded image whose
\* temporary anchor occurs in the submitted content, the saved content holds
\* no temporary anchor and exactly one permanent anchor.
C2_AnchorElimination ==
  Created =>
    \A i \in 1..Len(TheTuples) :
      (Truthy(TheTuples[i].placeholderId)
         /\ Includes(ThePost.content, TemporaryAnchor(TheTuples[i])))
        => /\ Occurrences(db[1].content, TemporaryAnchor(TheTuples[i])) = 0
           /\ Occurrences(db[1].content, PermanentAnchor(TheTuples[i])) = 1

\* C2 (amended): for every uploaded image whose temporary anchor occurs in the
\* submitted content, the saved content holds no temporary anchor and holds
\* the permanent anchor once per occurrence of the temporary one (the
\* temporary ids of a request are pairwise distinct and differ from the
\* public ids).
C2_AnchorEliminationPerOccurrence ==
  Created =>
    \A i \in 1..Len(TheTuples) :
      (/\ Truthy(TheTuples[i].placeholderId)
       /\ Includes(ThePost.content, TemporaryAnchor(TheTuples[i])))
        => /\ Occurrences(db[1].content, TemporaryAnchor(TheTuples[i])) = 0
           /\ Occurrences(db[1].content, PermanentAnchor(TheTuples[i]))
                = Occurrences(ThePost.content, TemporaryAnchor(TheTuples[i]))

\* C2 witness: a document was created from a content that held the temporary
\* anchor of an uploaded image twice, and both became permanent anchors.
C2_Witness ==
  /\ Created
  /\ \E i \in 1..Len(TheTuples) :
       /\ Truthy(TheTuples[i].placeholderId)
       /\ Occurrences(ThePost.content, TemporaryAnchor(TheTuples[i])) = 2
       /\ Occurrences(db[1].content, PermanentAnchor(TheTuples[i])) = 2

\* The case of C3: one image, one anchor-shaped substring, whose alt text is
\* not the image's, and no placeholder format of the image in the content.
C3_Case ==
  /\ Created
  /\ Len(db[1].contentImages) = 1
  /\ Len(AnchorsOf(db[1].content)) = 1
  /\ AnchorsOf(db[1].content)[1][2] # db[1].contentImages[1].alt
  /\ ~HasExactMatchAt(db[1], 1)

\* C3: with one image and one anchor-shaped substring of mismatched alt
\* text, the stored processedContent holds the image's <img> and neither the
\* anchor nor the link the converter would make of it.
C3_SingleImageFallback ==
  C3_Case =>
    LET anchor == AnchorsOf(db[1].content)[1]
    IN /\ CountImgSrc(db[1].processedContent, db[1].contentImages[1].url) = 1
       /\ ~Includes(db[1].processedContent, <<anchor>>)
       /\ ~Includes(db[1].processedContent, LinkOf(anchor))

\* C3 witness: the case happened and the image was emitted.
C3_Witness ==
  /\ C3_Case
  /\ CountImgSrc(db[1].processedContent, db[1].contentImages[1].url) = 1
  /\ Resolution(db[1]).how = <<"fallback">>

\* The number of images before image i that had no exact placeholder match.
FallbackRank(doc, i) ==
  Cardinality({j \in 1..(i - 1) : Resolution(doc).how[j] \in {"fallback", "none"}})

\* C4 (as claimed): an image without exact match replaces the k-th
\* anchor-shaped substring, k its index among the images that needed the
\* fallback; so a second image of mismatched alt text still takes the one
\* anchor the exactly matched first image left.
C4_FallbackIndexInSubset ==
  Created =>
    \A i \in 1..Len(db[1].contentImages) :
      LET k == FallbackRank(db[1], i)
          candidates == AnchorsOf(ProcessedBefore(db[1], i))
      IN (~HasExactMatchAt(db[1], i) /\ Len(candidates) > k)
           => /\ Resolution(db[1]).how[i] = "fallback"
              /\ Resolution(db[1]).used[i] = <<candidates[k + 1]>>

\* C5 (as claimed): the stored placeholder of every image that was resolved,
\* by exact match or by fallback, is the anchor that located it, and occurs
\* in the stored content.
C5_AnchorRecorded ==
  Created =>
    \A i \in 1..Len(db[1].contentImages) :
      Resolution(db[1]).how[i] \in {"exact", "fallback"}
        => /\ db[1].contentImages[i].placeholder = Resolution(db[1]).used[i]
           /\ Includes(db[1].content, db[1].contentImages[i].placeholder)

\* The in-memory document POST /blogs hands to save().
PostedBlog ==
  LET data == PostBlogData(ThePost, 0)
  IN NewBlog(data.updatedContent, data.contentImages)

Accepted == lastPost # <<>> /\ ~PostRejects(ThePost)

\* Every line of the converter's output is a paragraph or an HTML block.
LinesConverted(html) ==
  html = <<>> \/
    LET lines == SplitLines(html)
    IN \A n \in 1..Len(lines) :
         /\ lines[n] # <<>>
         /\ ContainsHtml(lines[n]) \/ (Head(lines[n]) = POpen /\ lines[n][Len(lines[n])] = PClose)

\* C6: an image with neither an exact placeholder nor a fallback candidate
\* does not make the save fail: the document is stored with all its images,
\* no iteration is skipped, every resolved image is emitted, and the content
\* is converted (no raw anchor left, the text kept, every line a block).
C6_UnresolvableNonFatal ==
  LET posted == PostedBlog
      res == Resolution(posted)
  IN (Accepted /\ \E i \in 1..ThePost.files : ~(res.how[i] \in {"exact", "fallback"}))
    => /\ Created
       /\ db[1].contentImages = posted.contentImages
       /\ ~res.threw
       /\ \A j \in 1..ThePost.files :
            /\ res.how[j] \in {"exact", "fallback", "none"}
            /\ res.how[j] \in {"exact", "fallback"}
                 => CountImgSrc(db[1].processedContent, db[1].contentImages[j].url) >= 1
       /\ \A k \in 1..Len(db[1].processedContent) : db[1].processedContent[k][1] # "anchor"
       /\ Occurrences(db[1].processedContent, <<Txt>>) = Occurrences(db[1].content, <<Txt>>)
       /\ LinesConverted(db[1].processedContent)

\* C6 witness: a stored document with one image resolved, another one left
\* without anchor, and a paragraph of text.
C6_Witness ==
  /\ Created
  /\ \E i, j \in 1..Len(db[1].contentImages) :
       /\ Resolution(db[1]).how[i] = "none"
       /\ Resolution(db[1]).how[j] = "exact"
       /\ CountImgSrc(db[1].processedContent, db[1].contentImages[j].url) = 1
  /\ Includes(db[1].processedContent, <<POpen, Txt, PClose>>)

Perms(n) == {f \in [1..n -> 1..n] : \A i, j \in 1..n : f[i] = f[j] => i = j}
Permuted(seq, f) == [i \in 1..Len(seq) |-> seq[f[i]]]

\* The create path's resolved content, and the rendering, do not depend on
\* the order in which the images are processed.
PostOrderIndependent ==
  \A f \in Perms(Len(TheTuples)) :
    PostResolve(ThePost.content, Permuted(TheTuples, f)).updatedContent = db[1].content

RenderOrderIndependent ==
  \A f \in Perms(Len(db[1].contentImages)) :
    generateProcessedContent([db[1] EXCEPT !.contentImages = Permuted(db[1].contentImages, f)])
      = db[1].processedContent

\* Every image has a placeholder format of its own in the content.
AllExact(doc) ==
  \A i \in 1..Len(doc.contentImages) :
    \E k \in 1..5 :
      LET placeholder == PlaceholderFormats(doc.contentImages[i])[k]
      IN placeholder # <<>> /\ Includes(doc.content, placeholder)

\* C7 (as claimed): any processing order of the images gives the same
\* resolved content and the same rendering, fallback included.
C7_OrderIndependent == Created => (PostOrderIndependent /\ RenderOrderIndependent)

\* C7 (amended): any order gives the same resolved content on the create
\* path, and the same rendering when every image has an exact placeholder in
\* the content (no positional fallback).
C7_OrderIndependentWhenExact ==
  Created => (PostOrderIndependent /\ (AllExact(db[1]) => RenderOrderIndependent))

\* C7 witness: two images, each with its exact placeholder in the content,
\* both rendered.
C7_Witness ==
  /\ Created
  /\ Len(db[1].contentImages) = 2
  /\ AllExact(db[1])
  /\ Resolution(db[1]).how = <<"exact", "exact">>
  /\ \A i \in 1..2 : CountImgSrc(db[1].processedContent, db[1].contentImages[i].url) = 1

\* C8: the save of POST /blogs stores the content and the image list exactly
\* as the handler built them, and a read that regenerates returns them
\* unchanged.
C8_ImagesAndContentUntouched ==
  /\ Created => /\ db[1].content = PostedBlog.content
                /\ db[1].contentImages = PostedBlog.contentImages
  /\ resp.route = "GET /" =>
       \A i \in 1..Len(resp.blogs) :
         /\ resp.blogs[i].content = db[i].content
         /\ resp.blogs[i].contentImages = db[i].contentImages

\* C8 witness: a stored document with two images, one resolved by fallback,
\* read back through GET /blogs.
C8_Witness ==
  /\ Created
  /\ Len(db[1].contentImages) = 2
  /\ "fallback" \in {Resolution(db[1]).how[i] : i \in 1..2}
  /\ resp.route = "GET /"
  /\ Len(resp.blogs) = 1

\* Documents that differ from `doc` in fields other than content and
\* contentImages.
OtherFieldVariants(doc) ==
  {doc,
   [doc EXCEPT !.views = 7, !.likesCount = 7, !.readTime = 0],
   [doc EXCEPT !.processedContent = <<>>],
   [doc EXCEPT !.processedContent = NoProcessedContent]}

\* C9: generateProcessedContent depends on content and contentImages only,
\* and the regeneration of GET /blogs returns the processedContent the save
\* stored.
C9_RegenerationReturnsStored ==
  /\ Created => \A other \in OtherFieldVariants(db[1]) :
                  generateProcessedContent(other) = db[1].processedContent
  /\ resp.route = "GET /" =>
       \A i \in 1..Len(resp.blogs) : resp.blogs[i].processedContent = db[i].processedContent

\* C9 witness: GET /blogs regenerated a stored document that holds an image
\* and a paragraph.
C9_Witness ==
  /\ Created
  /\ resp.route = "GET /"
  /\ Len(resp.blogs) = 1
  /\ \E k \in 1..Len(resp.blogs[1].processedContent) : resp.blogs[1].processedContent[k][1] = "imgdiv"
  /\ \E k \in 1..Len(resp.blogs[1].processedContent) : resp.blogs[1].processedContent[k] = POpen

\* C10 (as claimed): no stored document has content or contentImages newer
\* than its processedContent: the stored processedContent is
\* generateProcessedContent of the stored content and contentImages.
C10_Fresh ==
  Created => db[1].processedContent = generateProcessedContent(db[1])

\* C11: a read does not write the regenerated value: the save() of GET
\* /blogs/:slug (and GET /blogs, which never saves) leaves the stored
\* processedContent, content, contentImages and readTime as they were.
SlugSaves ==
  \E r \in ReqIds : reqs[r].pc = "saving" /\ reqs[r].kind = "GET /:slug" /\ reqs'[r] = IdleReq

ListRead == resp' # resp /\ resp'.route = "GET /"

C11_ReadsAreTransient ==
  [][(SlugSaves \/ ListRead) =>
       /\ Len(db') = Len(db)
       /\ \A i \in 1..Len(db) :
            \A f \in {"processedContent", "content", "contentImages", "readTime"} :
              db'[i][f] = db[i][f]]_vars

\* C12: every endpoint that returns a blog returns processedContent equal to
\* generateProcessedContent of the content and images it returns.
BlogRoutes ==
  {"GET /", "GET /:slug", "GET /id/:id", "GET /featured/popular", "GET /featured/featured",
   "GET /author/my-blogs", "GET /admin/all-blogs"}

C12_EveryReadRegenerates ==
  (resp.route \in BlogRoutes /\ resp.status = 200) =>
    \A i \in 1..Len(resp.blogs) :
      resp.blogs[i].processedContent = generateProcessedContent(resp.blogs[i])

\* C13: after a save that modified content, readTime is ceil(W / 200) with W
\* the number of whitespace-separated words of the raw content (400 words
\* give 2, whatever whitespace surrounds them).
NonSpaceRuns(s) ==
  Cardinality({i \in 1..Len(s) : ~IsSpace(s[i]) /\ (i = 1 \/ IsSpace(s[i - 1]))})

Words(content) == NonSpaceRuns(content) + SumSpaces(content)

SavesContent(r) ==
  /\ reqs[r].pc = "saving" /\ reqs'[r] = IdleReq
  /\ "content" \in ChangedPaths(reqs[r].base, reqs[r].doc) \cup reqs[r].marked
  /\ resp'.status = 200

C13_ReadTime ==
  [][\A r \in ReqIds :
       SavesContent(r) =>
         db'[1].readTime = CeilDiv(Words(db'[1].content), wordsPerMinute)]_vars

\* C14: n unordered bullet lines, a blank line and m ordered bullet lines
\* give one <ul> with n items, closed, then one <ol> with m items, closed
\* ("- a\n- b\n\n1. x\n2. y": two items each).
Returned == call.pc = "returned"

Repeat(x, n) == [k \in 1..n |-> x]

TwoRuns(n, m) ==
  TextOf(Repeat(<<Dash, SP, Txt>>, n) \o <<<<>>>> \o Repeat(<<Num("1"), SP, Txt>>, m))

IsTag(t) == t[1] = "tag"

\* The element tags of `html`, in order.
TagNames(html) == LET tags == SelectSeq(html, IsTag) IN [k \in 1..Len(tags) |-> tags[k][2]]

RECURSIVE Flat(_)
Flat(ss) == IF ss = <<>> THEN <<>> ELSE Head(ss) \o Flat(Tail(ss))

ListOf(name, n) == <<name>> \o Flat(Repeat(<<"li", "/li">>, n)) \o <<"/" \o name>>

C14_ListGrouping ==
  \A n \in 1..MaxLines, m \in 1..MaxLines :
    (Returned /\ call.contentImages = <<>> /\ call.content = TwoRuns(n, m)) =>
      TagNames(call.result) = ListOf("ul", n) \o ListOf("ol", m)

C14_Witness ==
  /\ Returned
  /\ call.content = TwoRuns(2, 2)
  /\ TagNames(call.result) = <<"ul", "li", "/li", "li", "/li", "/ul", "ol", "li", "/li", "li", "/li", "/ol">>

\* C15: a line that begins an <img tag without its '>' and a later line
\* that holds the '>': the loop pushes one line, the fragments from the
\* first to the closing one joined by single spaces, and goes on after the
\* closing line, so that no fragment is read as a line of its own.
RECURSIVE JoinWith(_, _)
JoinWith(ls, sep) ==
  IF ls = <<>> THEN <<>>
  ELSE IF Len(ls) = 1 THEN ls[1]
  ELSE ls[1] \o sep \o JoinWith(Tail(ls), sep)

\* Line k (1-based) opens a tag that line e closes.
SplitTag(lines, k, e) ==
  /\ k < e /\ e <= Len(lines)
  /\ Trim(lines[k]) # <<>> /\ Trim(lines[k])[1] = ImgOpen
  /\ \A n \in k..(e - 1) : ~IncludesGt(lines[n])
  /\ IncludesGt(lines[e])

C15_TagMerge ==
  [][\A e \in 1..Len(call.lines) :
       (/\ call.pc = "loop" /\ call.loop.i < Len(call.lines)
        /\ SplitTag(call.lines, call.loop.i + 1, e)) =>
         /\ call'.loop.processedLines =
              Append(Closed(call.loop).processedLines,
                     JoinWith([n \in 1..(e - call.loop.i) |-> Trim(call.lines[call.loop.i + n])], <<SP>>))
         /\ call'.loop.i = e]_vars

C15_Witness ==
  /\ call.pc = "loop"
  /\ call.lines = <<<<ImgOpen, SP, Attr("src")>>, <<Attr("alt")>>, <<Attr("alt"), Gt>>>>
  /\ call.loop.i = 3
  /\ call.loop.processedLines =
       <<<<ImgOpen, SP, Attr("src"), SP, Attr("alt"), SP, Attr("alt"), Gt>>>>

\* C16: {color:c}text{/color} on a line of its own or in a list item gives
\* one span of colour c around the text, and no "{color:" or "{/color}"
\* is left in the output.
IsColour(t) == t[1] \in {"color", "/color"}

Spans(html) == Len(SelectSeq(html, LAMBDA t : t[1] = "tag" /\ t[2] = "span"))

\* The bullet of a one-line text, and what follows it.
PrefixOf(content) ==
  IF Len(content) >= 2 /\ SubSeq(content, 1, 2) \in LinePrefixes THEN SubSeq(content, 1, 2) ELSE <<>>

BodyOf(content) == SubSeq(content, Len(PrefixOf(content)) + 1, Len(content))

\* The text is {color:c}text{/color}, possibly after a bullet; TextIn is the
\* text between the two tags.
Coloured(content) ==
  /\ ~Has(content, {"nl"})
  /\ Len(BodyOf(content)) >= 2
  /\ BodyOf(content)[1][1] = "color"
  /\ BodyOf(content)[Len(BodyOf(content))] = ColorClose

TextIn(content) == SubSeq(BodyOf(content), 2, Len(BodyOf(content)) - 1)

IsPlain(text) == \A k \in 1..Len(text) : text[k] = Txt

Wrapped(pre, inner) ==
  IF pre = <<>> THEN <<POpen>> \o inner \o <<PClose>>
  ELSE LET name == IF pre[1][1] = "num" THEN "ol" ELSE "ul"
       IN <<Tag(name, ""), NL, Tag("li", "")>> \o inner \o <<Tag("/li", ""), NL, Tag("/" \o name, "")>>

C17_NeverThrows == call.pc # "threw"

C17_Witness ==
  /\ Returned
  /\ call.content = <<ImageAnchor("b", "x"), NL, ImgOpen, SP, Attr("src")>>
  /\ \E k \in 1..Len(call.contentImages) :
       /\ ~Truthy(call.contentImages[k].public_id) /\ ~Truthy(call.contentImages[k].url)
       /\ ~Truthy(call.contentImages[k].alt) /\ call.contentImages[k].placeholder = <<>>
  /\ call.result # <<>>

\* C18: a line with one unmatched delimiter (a lone '**', a lone '*' or a
\* lone backtick) keeps the delimiter as text and becomes a paragraph; no
\* emphasis or code element is produced.
Count(line, t) == Len(SelectSeq(line, LAMBDA x : x = t))

LoneDelimiter(line) ==
  \/ Count(line, Star) = 1 /\ Count(line, Tick) = 0
  \/ Count(line, Star) = 0 /\ Count(line, Tick) = 1
  \/ /\ Count(line, Star) = 2 /\ Count(line, Tick) = 0
     /\ \E k \in 1..(Len(line) - 1) : line[k] = Star /\ line[k + 1] = Star

C18_UnmatchedDelimiter ==
  (/\ Returned /\ call.contentImages = <<>>
   /\ \A k \in 1..Len(call.content) : call.content[k] \in {Txt, Star, Tick}
   /\ LoneDelimiter(call.content)) =>
    /\ call.result = <<POpen>> \o call.content \o <<PClose>>
    /\ SelectSeq(call.result, IsTag) = <<>>

\* C19: at every point of the line loop at most one of inList and
\* inOrderedList is true.
C19_OneListOpen == ~(call.loop.inList /\ call.loop.inOrderedList)

\* C20: when a list is open and the line read is blank or is not a bullet
\* of that list, the closing tag of the list is the first thing the
\* iteration pushes; in the returned text the list containers are nested,
\* never interleaved.
Pushed == SubSeq(call'.loop.processedLines, Len(call.loop.processedLines) + 1,
                 Len(call'.loop.processedLines))

RECURSIVE Nested(_, _)
Nested(names, open) ==
  IF names = <<>> THEN open = <<>>
  ELSE IF Head(names) \in {"ul", "ol"} THEN Nested(Tail(names), <<Head(names)>> \o open)
  ELSE IF Head(names) \in {"/ul", "/ol"}
  THEN open # <<>> /\ Head(names) = "/" \o Head(open) /\ Nested(Tail(names), Tail(open))
  ELSE Nested(Tail(names), open)

C20_ClosingOrder ==
  [][/\ (call.pc = "loop" /\ call.loop.i < Len(call.lines)) =>
          LET line == Trim(call.lines[call.loop.i + 1])
          IN /\ (call.loop.inList /\ ~IsUnordered(line)) =>
                  Pushed # <<>> /\ Head(Pushed) = <<Tag("/ul", "")>>
             /\ (call.loop.inOrderedList /\ ~IsOrdered(line)) =>
                  Pushed # <<>> /\ Head(Pushed) = <<Tag("/ol", "")>>
     /\ call'.pc = "returned" => Nested(TagNames(call'.result), <<>>)]_vars

\* C21: in the lines the loop returns there are as many </ul> lines as <ul>
\* lines and as many </ol> lines as <ol> lines, and no list is open when the
\* pass has finished (a list open at the last line is closed at the end).
LinesOf(ls, name) == Cardinality({k \in 1..Len(ls) : ls[k] = <<Tag(name, "")>>})

C21_EveryListClosed ==
  Returned =>
    /\ LinesOf(call.loop.processedLines, "/ul") = LinesOf(call.loop.processedLines, "ul")
    /\ LinesOf(call.loop.processedLines, "/ol") = LinesOf(call.loop.processedLines, "ol")
    /\ ~call.loop.inList /\ ~call.loop.inOrderedList

\* Both lists are still open at the last line.
C21_Witness ==
  /\ Returned
  /\ call.content = TextOf(<<<<Dash, SP, Txt>>, <<>>, <<Dash, SP, Txt>>, <<Num("1"), SP, Txt>>>>)
  /\ LinesOf(call.loop.processedLines, "ul") = 2
  /\ LinesOf(call.loop.processedLines, "/ul") = 2
  /\ LinesOf(call.loop.processedLines, "ol") = 1
  /\ LinesOf(call.loop.processedLines, "/ol") = 1

\* C22: when every source line begins with '- ' or '* ', whatever follows
\* the bullet (further '*' characters and emphasis included), the loop
\* returns one <ul>, one <li> line per source line, and one </ul>.
SourceLines == SplitLines(call.content)

\* The bullet and some text after it.
IsBullet(line) == IsUnordered(line) /\ \E j \in 3..Len(line) : ~IsSpace(line[j])

IsItemLine(line) ==
  /\ Len(line) >= 2
  /\ line[1] = Tag("li", "")
  /\ line[Len(line)] = Tag("/li", "")

C22_BulletLines ==
  (/\ Returned /\ call.contentImages = <<>> /\ call.content # <<>>
   /\ \A k \in 1..Len(SourceLines) : IsBullet(SourceLines[k])) =>
    LET out == call.loop.processedLines
    IN /\ Len(out) = Len(SourceLines) + 2
       /\ out[1] = <<Tag("ul", "")>>
       /\ out[Len(out)] = <<Tag("/ul", "")>>
       /\ \A k \in 1..Len(SourceLines) : IsItemLine(out[k + 1])

\* C23: the link, inline-code, blockquote and code-block passes give the
\* same text in whatever order they run, and a block between two ``` fences
\* becomes one <pre><code> element around the enclosed text.
EarlyPasses(markdown) == ItalicPass(BoldPass(HeaderPass(ColorPass(markdown))))

LatePasses == {"links", "inline code", "blockquotes", "code blocks"}

ApplyPass(name, s) ==
  CASE name = "links" -> LinkPass(s)
    [] name = "inline code" -> InlineCodePass(s)
    [] name = "blockquotes" -> BlockquotePass(s)
    [] name = "code blocks" -> CodeBlockPass(s)

RECURSIVE ApplyOrder(_, _)
ApplyOrder(order, s) ==
  IF order = <<>> THEN s ELSE ApplyOrder(Tail(order), ApplyPass(Head(order), s))

Orders == {o \in [1..4 -> LatePasses] : \A i, j \in 1..4 : i # j => o[i] # o[j]}

C23_PassOrderIndependent ==
  (call.pc \in {"loop", "returned"} /\ call.processed # <<>>) =>
    /\ \A o \in Orders :
         SplitLines(ApplyOrder(o, EarlyPasses(call.processed))) = call.lines
    /\ \A body \in SeqsUpTo({Txt, NL}, MaxFenced) :
         call.processed = Fence \o body \o Fence =>
           JoinLines(call.lines) =
             <<Tag("pre", ""), Tag("code", "")>> \o body \o <<Tag("/code", ""), Tag("/pre", "")>>

\* C24: a non-blank line that is no list item, begins no <img tag and holds
\* no block-level HTML is returned in one paragraph element, also when it
\* holds inline elements (bold, italic, link, inline code, colour span); a
\* line with block-level HTML is returned as it is.
BlockTags == {"h1", "h2", "h3", "h4", "blockquote", "pre", "ul", "ol", "li"}

HasBlock(line) ==
  \E k \in 1..Len(line) :
    line[k][1] \in {"imgdiv", "imgopen"} \/ (line[k][1] = "tag" /\ line[k][2] \in BlockTags)

TheLine == Trim(call.lines[1])

C24_ParagraphWrapping ==
  (/\ Returned /\ call.contentImages = <<>> /\ Len(call.lines) = 1
   /\ TheLine # <<>> /\ ~IsUnordered(TheLine) /\ ~IsOrdered(TheLine)) =>
    call.result = IF HasBlock(TheLine) THEN TheLine ELSE <<POpen>> \o TheLine \o <<PClose>>

\* C25: the iteration that reads a line beginning an <img tag with no '>'
\* of its own leaves the cursor past every line it appended to the merged
\* line: past the first later line that holds a '>', and past the last line
\* when no later line holds one.
OpensTag(lines, k) ==
  /\ Trim(lines[k]) # <<>>
  /\ Trim(lines[k])[1] = ImgOpen
  /\ ~IncludesGt(lines[k])

\* The last line (1-based) the merge that starts at line k appends.
MergeEnd(lines, k) ==
  LET closers == {e \in (k + 1)..Len(lines) : IncludesGt(lines[e])}
  IN IF closers = {} THEN Len(lines) ELSE CHOOSE e \in closers : \A f \in closers : e <= f

C25_MergeCursor ==
  [][(/\ call.pc = "loop" /\ call.loop.i < Len(call.lines)
      /\ OpensTag(call.lines, call.loop.i + 1)) =>
        call'.loop.i = MergeEnd(call.lines, call.loop.i + 1)]_vars

\* C26: the iteration that reads a line holding a complete <img ...> tag
\* (its '>' is on the line) pushes that line unchanged and moves the cursor
\* by one, so the lines that follow are read on their own.
CompleteTag(lines, k) ==
  /\ Trim(lines[k]) # <<>>
  /\ Trim(lines[k])[1] = ImgOpen
  /\ IncludesGt(lines[k])

C26_MergeTrigger ==
  [][(/\ call.pc = "loop" /\ call.loop.i < Len(call.lines)
      /\ CompleteTag(call.lines, call.loop.i + 1)) =>
        /\ call'.loop.processedLines =
             Append(Closed(call.loop).processedLines, Trim(call.lines[call.loop.i + 1]))
        /\ call'.loop.i = call.loop.i + 1]_vars

\* C27: a save whose document has content modified resolves with readTime
\* recomputed from that content, and stores it when no other save came
\* between its load and its write; a save that modified contentImages,
\* likes or views only leaves the stored readTime, and the one of the
\* document, as they were.
SaveOf(r) == reqs[r].pc = "saving" /\ reqs'[r] = IdleReq /\ resp'.status = 200

ContentModified(q) == "content" \in ChangedPaths(q.base, q.doc) \cup q.marked

ReadTimeOf(content) == CeilDiv(WordCount(content), wordsPerMinute)

C27_ReadTimeFrame ==
  [][\A r \in ReqIds :
       SaveOf(r) =>
         IF ContentModified(reqs[r])
         THEN /\ resp'.blogs[1].readTime = ReadTimeOf(reqs[r].doc.content)
              /\ db[1] = reqs[r].base => db'[1].readTime = ReadTimeOf(db'[1].content)
         ELSE /\ db'[1].readTime = db[1].readTime
              /\ resp'.blogs[1].readTime = reqs[r].base.readTime]_vars

\* The text has grown past 200 words in one save, and another save that
\* left it alone has changed the images, the likes or the views.
C27_Witness ==
  /\ db[1].content = <<WordRun("400")>>
  /\ db[1].readTime = 2
  /\ resp.status = 200
  /\ resp.route \in {"POST /:id/like", "GET /:slug", "DELETE /:id/content-images/:publicId"}
  /\ \/ Len(db[1].contentImages) = 0
     \/ db[1].likes # <<>>
     \/ db[1].views > 0

\* C28: whatever creations, uploads (appended or replacing every image),
\* merges of existing images and deletions have been saved, no two entries
\* of the stored contentImages have the same position.
C28_PositionsDistinct ==
  \A b \in 1..Len(db) :
    \A i, j \in 1..Len(db[b].contentImages) :
      i # j => db[b].contentImages[i].position # db[b].contentImages[j].position

\* C29 (as claimed): no view is lost.  Every GET /blogs/:slug whose save()
\* succeeds leaves the stored views counter exactly one higher than it was
\* just before that save, so that n completed requests raise it by n however
\* their loads and saves interleave.
C29_NoViewLost ==
  [][(SlugSaves /\ resp'.status = 200) => db'[1].views = db[1].views + 1]_vars

\* C30 (as claimed): once every POST /blogs/:id/like request has completed,
\* the stored likesCount is the length of the stored likes, no user id is
\* in likes twice, and two further toggles by one user, one after the other,
\* leave the same users in likes and the same likesCount.
AllCompleted == \A r \in ReqIds : reqs[r].pc = "idle"

ToggledTwice(blog, userId) ==
  LET once == AfterSave(LikeRequest(blog, userId), blog)
  IN AfterSave(LikeRequest(once, userId), once)

C30_LikesConsistent ==
  AllCompleted =>
    /\ db[1].likesCount = Len(db[1].likes)
    /\ \A i, j \in 1..Len(db[1].likes) : i # j => db[1].likes[i] # db[1].likes[j]
    /\ \A userId \in UserIds :
         /\ Range(ToggledTwice(db[1], userId).likes) = Range(db[1].likes)
         /\ ToggledTwice(db[1], userId).likesCount = db[1].likesCount

====
